---- MODULE Spec2Model ----
(***************************************************************************)
(* Order lifecycle and inventory reservation of the Order Service API.     *)
(*                                                                         *)
(* OrderService (createOrder, payOrder, cancelOrder) runs against a        *)
(* MongoDB replica set.  Every await on the database is one step.  The     *)
(* database is modelled as MongoDB behaves for this code:                  *)
(*  - reads without a session (BaseRepository.findById) return the last    *)
(*    committed document;                                                  *)
(*  - the first operation that carries { session } takes the snapshot of   *)
(*    the transaction; later session operations see that snapshot plus     *)
(*    the transaction's own writes;                                        *)
(*  - a session write to a document that another open transaction has      *)
(*    written, or that was committed after the snapshot, raises            *)
(*    WriteConflict; a write without a session waits for the document;     *)
(*  - commitTransaction publishes the writes at once; abortTransaction     *)
(*    discards them.                                                       *)
(***************************************************************************)
EXTENDS Integers, Sequences, FiniteSets, TLC

\* ---------------------------------------------------------------- bounds
MaxCalls == 2      \* invocations in flight at the same time
MaxLines == 2      \* order lines in the ledger plus those of creations in flight
MaxItems == 2      \* lines of one createOrder request
MaxQty == 2        \* largest requested quantity
MaxPrice == 2      \* largest price a catalog edit sets
MaxStock == 1      \* largest stock a catalog edit sets

Calls == 1..MaxCalls

\* ------------------------------------------------------------ data model
CREATED == "created"
PAID == "paid"
CANCELLED == "cancelled"
OrderStatus == {CREATED, PAID, CANCELLED}

ProductIds == {"p1", "p2"}
NoProduct == "px"                  \* an id no product has
UserIds == {"u1"}
Customers == {"u1", "u2"}
Actors == {[userId |-> "u1", role |-> "customer"],
           [userId |-> "u2", role |-> "customer"],
           [userId |-> "adm", role |-> "admin"]}
NoOrder == 0                       \* an id no order has


\* the catalog at start
InitStock == [p \in ProductIds |-> IF p = "p1" THEN 2 ELSE 1]
InitPrice == [p \in ProductIds |-> IF p = "p1" THEN 1 ELSE 2]
ItemChoices == [productId : ProductIds, quantity : 1..MaxQty]
                 \cup {[productId |-> NoProduct, quantity |-> 1]}
ItemLists == UNION {[1..n -> ItemChoices] : n \in 1..MaxItems}

VARIABLES
  stock,     \* Product.stock, committed
  price,     \* Product.price, committed
  orders,    \* the Order collection, committed; an order's id is its index
  pc,        \* per invocation: the await it is suspended at
  req,       \* per invocation: operation and arguments
  loc,       \* per invocation: local variables of the method
  tx,        \* per invocation: its ClientSession's transaction
  res        \* per invocation: what the caller receives

vars == <<stock, price, orders, pc, req, loc, tx, res>>

\* --------------------------------------------------------- pure helpers
\* { stock: { $gte: item.quantity } }
StockFilterAny(s, q) == TRUE
StockFilter(s, q) == s >= q

\* { $inc: { stock: -item.quantity } }
DecrementOne(s, q) == s - 1
Decrement(s, q) == s - q

\* { $inc: { stock: item.quantity } }
IncrementOne(s, q) == s + 1
Increment(s, q) == s + q

\* product.stock < item.quantity
PreCheckFailsNever(s, q) == FALSE
PreCheckFails(s, q) == s < q

\* product.price * item.quantity
LineTotalNoQty(p, q) == p
LineTotal(p, q) == p * q

\* role !== 'admin' && order.userId !== userId
NotOwnerNever(role, owner, userId) == FALSE
NotOwner(role, owner, userId) == role # "admin" /\ owner # userId

\* role !== 'admin' && order.status === OrderStatus.PAID
PaidLockedNever(role, status) == FALSE
PaidLocked(role, status) == role # "admin" /\ status = PAID

\* order.status === OrderStatus.PAID, the idempotent return of payOrder
AlreadyPaidNever(status) == FALSE
AlreadyPaid(status) == status = PAID

\* order.status === OrderStatus.CANCELLED, the refusal of payOrder
PayCancelledNever(status) == FALSE
PayCancelled(status) == status = CANCELLED

\* order.status === OrderStatus.CANCELLED, the idempotent return of cancelOrder
AlreadyCancelledNever(status) == FALSE
AlreadyCancelled(status) == status = CANCELLED

\* the quantity of product p in the lines items
RECURSIVE Qty(_, _)
Qty(items, p) ==
  IF items = <<>> THEN 0
  ELSE (IF items[1].productId = p THEN items[1].quantity ELSE 0) + Qty(Tail(items), p)

RECURSIVE SumItems(_)
SumItems(items) ==
  IF items = <<>> THEN 0
  ELSE items[1].quantity * items[1].unitPrice + SumItems(Tail(items))

\* ------------------------------------------------------- canonical idle
\* body is the request body as received, before it is validated
NoReq == [op |-> "none", userId |-> "", role |-> "", items |-> <<>>, orderId |-> 0,
          body |-> <<>>]
\* reserved is a history field: the committed price of the product of each
\* line at the step of its conditional decrement
NoLoc == [i |-> 0, total |-> 0, orderItems |-> <<>>, reserved |-> <<>>]
NoTx == [state |-> "none", view |-> [p \in ProductIds |-> 0],
         wp |-> {}, wo |-> {}, ins |-> <<>>, dirtyP |-> {}, dirtyO |-> {}]
NoRes == [ok |-> FALSE, err |-> "", orderId |-> 0, status |-> "", list |-> <<>>]

Ok(oid, st) == [NoRes EXCEPT !.ok = TRUE, !.orderId = oid, !.status = st]
Err(e) == [NoRes EXCEPT !.err = e]
\* an array of orders, as their ids
OkList(ids) == [NoRes EXCEPT !.ok = TRUE, !.list = ids]

\* ------------------------------------------------------- the transaction
\* session.startTransaction(): nothing reaches the server yet
PendingTx == [NoTx EXCEPT !.state = "pending"]

\* the products invocation c has still to write, and the order it writes
RECURSIVE ProductsOf(_)
ProductsOf(items) ==
  IF items = <<>> THEN {} ELSE {items[1].productId} \cup ProductsOf(Tail(items))

Lines(c) == IF req[c].op = "createOrder" THEN req[c].items ELSE loc[c].orderItems
WillWriteP(c) ==
  {Lines(c)[k].productId : k \in {j \in 1..Len(Lines(c)) : j >= loc[c].i}} \cap ProductIds
WillWriteO(c) == IF req[c].op = "cancelOrder" THEN {req[c].orderId} ELSE {}

\* the first operation with { session } takes the snapshot; of the snapshot
\* the model keeps the documents the invocation goes on to use
TouchAlways(c) ==
  [tx[c] EXCEPT !.state = "active",
                !.view = [p \in ProductIds |-> IF p \in WillWriteP(c) THEN stock[p] ELSE 0]]
Touch(c) ==
  IF tx[c].state = "pending"
  THEN [tx[c] EXCEPT !.state = "active",
                     !.view = [p \in ProductIds |-> IF p \in WillWriteP(c) THEN stock[p] ELSE 0]]
  ELSE tx[c]

\* documents written by the open transactions of the other invocations
LockedP(c) == UNION {tx[d].wp : d \in Calls \ {c}}
LockedO(c) == UNION {tx[d].wo : d \in Calls \ {c}}

ConflictP(c, t, p) == p \in t.dirtyP \cup LockedP(c)
ConflictO(c, t, o) == o \in t.dirtyO \cup LockedO(c)

\* a committed write to the documents wp, wo is seen by the open snapshots
Stale(c, wp, wo) ==
  [d \in Calls |->
     IF d = c THEN NoTx
     ELSE IF tx[d].state = "active"
          THEN [tx[d] EXCEPT !.dirtyP = @ \cup (wp \cap WillWriteP(d)),
                             !.dirtyO = @ \cup (wo \cap WillWriteO(d))]
          ELSE tx[d]]

StaleAll(wp, wo) ==
  [d \in Calls |->
     IF tx[d].state = "active"
     THEN [tx[d] EXCEPT !.dirtyP = @ \cup (wp \cap WillWriteP(d)),
                        !.dirtyO = @ \cup (wo \cap WillWriteO(d))]
     ELSE tx[d]]

\* session.commitTransaction()
CommitTxDropStatus(c) ==
  LET t == tx[c] IN
  /\ stock' = [p \in ProductIds |-> IF p \in t.wp THEN t.view[p] ELSE stock[p]]
  /\ orders' = orders \o t.ins
  /\ tx' = Stale(c, t.wp, {})

CommitTx(c) ==
  LET t == tx[c] IN
  /\ stock' = [p \in ProductIds |-> IF p \in t.wp THEN t.view[p] ELSE stock[p]]
  /\ orders' = [i \in 1..Len(orders) |->
                  IF i \in t.wo THEN [orders[i] EXCEPT !.status = CANCELLED]
                  ELSE orders[i]] \o t.ins
  /\ tx' = Stale(c, t.wp, t.wo)

\* a throw inside try: the transaction stays open, holding its writes, until
\* the catch block aborts it; its snapshot is not used again
Thrown(t) == [NoTx EXCEPT !.state = "active", !.wp = t.wp, !.wo = t.wo, !.ins = t.ins]

HoldsWrites(t) == t.wp # {} \/ t.wo # {} \/ t.ins # <<>>

RECURSIVE SumLen(_)
SumLen(seqs) == IF seqs = <<>> THEN 0 ELSE Len(seqs[1]) + SumLen(Tail(seqs))

\* order lines in the ledger and in the createOrder requests in flight
LinesInUse == SumLen([i \in 1..Len(orders) |-> orders[i].items])
                + SumLen([c \in Calls |-> req[c].items])

\* invocations are interchangeable: a free slot is taken lowest first
FreeSlot(c) == pc[c] = "idle" /\ \A d \in Calls : d < c => pc[d] # "idle"

\* the method returns or rethrows: the caller receives r
Finish(c, r) ==
  /\ pc' = [pc EXCEPT ![c] = "done"]
  /\ res' = [res EXCEPT ![c] = r]
  /\ req' = [req EXCEPT ![c] = NoReq]
  /\ loc' = [loc EXCEPT ![c] = NoLoc]

\* throw inside try with transaction t: control goes to the catch block.  A
\* transaction that wrote nothing is aborted in the same step, since aborting
\* it touches no document.
ThrowNoAbort(c, e, t) ==
  /\ Finish(c, Err(e))
  /\ tx' = [tx EXCEPT ![c] = Thrown(t)]

Throw(c, e, t) ==
  IF HoldsWrites(t)
  THEN /\ pc' = [pc EXCEPT ![c] = "abort"]
       /\ res' = [res EXCEPT ![c] = Err(e)]
       /\ req' = [req EXCEPT ![c] = NoReq]
       /\ loc' = [loc EXCEPT ![c] = NoLoc]
       /\ tx' = [tx EXCEPT ![c] = Thrown(t)]
  ELSE /\ Finish(c, Err(e))
       /\ tx' = [tx EXCEPT ![c] = NoTx]

\* ------------------------------------------------------------------ Init
Init ==
  /\ stock = InitStock
  /\ price = InitPrice
  /\ orders = <<>>
  /\ pc = [c \in Calls |-> "idle"]
  /\ req = [c \in Calls |-> NoReq]
  /\ loc = [c \in Calls |-> NoLoc]
  /\ tx = [c \in Calls |-> NoTx]
  /\ res = [c \in Calls |-> NoRes]

\* ----------------------------------------------------------- createOrder
\* startSession, startTransaction, total = 0, orderItems = []
StartCreateOrder(c, userId, items) ==
  /\ FreeSlot(c)
  /\ LinesInUse + Len(items) <= MaxLines
  /\ pc' = [pc EXCEPT ![c] = "co_find"]
  /\ req' = [req EXCEPT ![c] = [NoReq EXCEPT !.op = "createOrder", !.userId = userId,
                                             !.items = items]]
  /\ loc' = [loc EXCEPT ![c] = [NoLoc EXCEPT !.i = 1]]
  /\ tx' = [tx EXCEPT ![c] = PendingTx]
  /\ UNCHANGED <<stock, price, orders, res>>

\* productRepo.findById(item.productId), the two checks, total +=, push
CoFind(c) ==
  /\ pc[c] = "co_find"
  /\ LET it == req[c].items[loc[c].i] IN
     IF it.productId \notin ProductIds
     THEN Throw(c, "NotFound", tx[c])
     ELSE IF PreCheckFails(stock[it.productId], it.quantity)
     THEN Throw(c, "InsufficientStock", tx[c])
     ELSE /\ loc' = [loc EXCEPT ![c].total = @ + LineTotal(price[it.productId], it.quantity),
                                ![c].orderItems = Append(@,
                                   [productId |-> it.productId, quantity |-> it.quantity,
                                    unitPrice |-> price[it.productId]])]
          /\ pc' = [pc EXCEPT ![c] = "co_dec"]
          /\ UNCHANGED <<req, tx, res>>
  /\ UNCHANGED <<stock, price, orders>>

\* findOneAndUpdate({_id, stock: {$gte: q}}, {$inc: {stock: -q}}, {session})
CoDecIgnoresNull(c) ==
  /\ pc[c] = "co_dec"
  /\ LET it == req[c].items[loc[c].i]
         p == it.productId
         t == Touch(c)
     IN
     \/ Throw(c, "DbError", t)
     \/ IF ~StockFilter(t.view[p], it.quantity) \/ ConflictP(c, t, p)
        THEN /\ tx' = [tx EXCEPT ![c] = t]
             /\ loc' = [loc EXCEPT ![c].i = @ + 1, ![c].reserved = Append(@, price[p])]
             /\ pc' = [pc EXCEPT ![c] =
                         IF loc[c].i < Len(req[c].items) THEN "co_find" ELSE "co_save"]
             /\ UNCHANGED <<req, res>>
        ELSE /\ tx' = [tx EXCEPT ![c] = [t EXCEPT !.view[p] = Decrement(@, it.quantity),
                                                  !.wp = @ \cup {p}]]
             /\ loc' = [loc EXCEPT ![c].i = @ + 1, ![c].reserved = Append(@, price[p])]
             /\ pc' = [pc EXCEPT ![c] =
                         IF loc[c].i < Len(req[c].items) THEN "co_find" ELSE "co_save"]
             /\ UNCHANGED <<req, res>>
  /\ UNCHANGED <<stock, price, orders>>

CoDec(c) ==
  /\ pc[c] = "co_dec"
  /\ LET it == req[c].items[loc[c].i]
         p == it.productId
         t == Touch(c)
     IN
     \/ Throw(c, "DbError", t)                 \* the driver call rejects
     \/ IF ~StockFilter(t.view[p], it.quantity)
        THEN Throw(c, "InsufficientStockRace", t)     \* no document matches: null
        ELSE IF ConflictP(c, t, p)
        THEN Throw(c, "WriteConflict", t)
        ELSE /\ tx' = [tx EXCEPT ![c] = [t EXCEPT !.view[p] = Decrement(@, it.quantity),
                                                  !.wp = @ \cup {p}]]
             /\ loc' = [loc EXCEPT ![c].i = @ + 1, ![c].reserved = Append(@, price[p])]
             /\ pc' = [pc EXCEPT ![c] =
                         IF loc[c].i < Len(req[c].items) THEN "co_find" ELSE "co_save"]
             /\ UNCHANGED <<req, res>>
  /\ UNCHANGED <<stock, price, orders>>

\* orderRepo.create({userId, items: orderItems, total, status: CREATED}, session)
CoSave(c) ==
  /\ pc[c] = "co_save"
  /\ LET t == Touch(c) IN
     \/ Throw(c, "DbError", t)                 \* the save rejects
     \/ /\ tx' = [tx EXCEPT ![c] = [t EXCEPT !.ins =
                    <<[userId |-> req[c].userId, items |-> loc[c].orderItems,
                       total |-> loc[c].total, status |-> CREATED]>>]]
        /\ pc' = [pc EXCEPT ![c] = "co_commit"]
        /\ UNCHANGED <<req, loc, res>>
  /\ UNCHANGED <<stock, price, orders>>

\* session.commitTransaction(); return order
CoCommit(c) ==
  /\ pc[c] = "co_commit"
  /\ CommitTx(c)
  /\ Finish(c, Ok(Len(orders) + 1, CREATED))
  /\ UNCHANGED price

\* catch: session.abortTransaction(); throw error; finally endSession
AbortAsCommit(c) ==
  /\ pc[c] = "abort"
  /\ CommitTx(c)
  /\ pc' = [pc EXCEPT ![c] = "done"]
  /\ UNCHANGED <<price, req, loc, res>>

Abort(c) ==
  /\ pc[c] = "abort"
  /\ tx' = [tx EXCEPT ![c] = NoTx]
  /\ pc' = [pc EXCEPT ![c] = "done"]
  /\ UNCHANGED <<stock, price, orders, req, loc, res>>

\* the caller has the result; the invocation is over
Return(c) ==
  /\ pc[c] = "done"
  /\ pc' = [pc EXCEPT ![c] = "idle"]
  /\ res' = [res EXCEPT ![c] = NoRes]
  /\ UNCHANGED <<stock, price, orders, req, loc, tx>>

\* -------------------------------------------------------------- payOrder
StartPayOrder(c, orderId, actor) ==
  /\ FreeSlot(c)
  /\ pc' = [pc EXCEPT ![c] = "pay_find"]
  /\ req' = [req EXCEPT ![c] = [NoReq EXCEPT !.op = "payOrder", !.userId = actor.userId,
                                             !.role = actor.role, !.orderId = orderId]]
  /\ UNCHANGED <<stock, price, orders, loc, tx, res>>

\* orderRepo.findById(orderId) and the checks up to the update
PayFindWrongError(c) ==
  /\ pc[c] = "pay_find"
  /\ LET o == req[c].orderId IN
     IF o \notin 1..Len(orders)
     THEN Finish(c, Err("Forbidden"))
     ELSE IF NotOwner(req[c].role, orders[o].userId, req[c].userId)
     THEN Finish(c, Err("Forbidden"))
     ELSE IF AlreadyPaid(orders[o].status)
     THEN Finish(c, Ok(o, PAID))
     ELSE IF PayCancelled(orders[o].status)
     THEN Finish(c, Err("OrderCancelled"))
     ELSE /\ pc' = [pc EXCEPT ![c] = "pay_update"]
          /\ UNCHANGED <<req, loc, res>>
  /\ UNCHANGED <<stock, price, orders, tx>>

PayFind(c) ==
  /\ pc[c] = "pay_find"
  /\ LET o == req[c].orderId IN
     IF o \notin 1..Len(orders)
     THEN Finish(c, Err("NotFound"))
     ELSE IF NotOwner(req[c].role, orders[o].userId, req[c].userId)
     THEN Finish(c, Err("Forbidden"))
     ELSE IF AlreadyPaid(orders[o].status)
     THEN Finish(c, Ok(o, PAID))
     ELSE IF PayCancelled(orders[o].status)
     THEN Finish(c, Err("OrderCancelled"))
     ELSE /\ pc' = [pc EXCEPT ![c] = "pay_update"]
          /\ UNCHANGED <<req, loc, res>>
  /\ UNCHANGED <<stock, price, orders, tx>>

\* orderRepo.update(orderId, { status: PAID }): findByIdAndUpdate, no session
PayUpdateClearsTotal(c) ==
  /\ pc[c] = "pay_update"
  /\ LET o == req[c].orderId IN
     /\ o \notin LockedO(c)
     /\ \/ /\ Finish(c, Err("DbError"))
           /\ UNCHANGED <<orders, tx>>
        \/ /\ orders' = [orders EXCEPT ![o].status = PAID, ![o].total = 0]
           /\ tx' = StaleAll({}, {o})
           /\ Finish(c, Ok(o, PAID))
  /\ UNCHANGED <<stock, price>>

PayUpdate(c) ==
  /\ pc[c] = "pay_update"
  /\ LET o == req[c].orderId IN
     /\ o \notin LockedO(c)                    \* waits for the open transaction
     /\ \/ /\ Finish(c, Err("DbError"))
           /\ UNCHANGED <<orders, tx>>
        \/ /\ orders' = [orders EXCEPT ![o].status = PAID]
           /\ tx' = StaleAll({}, {o})
           /\ Finish(c, Ok(o, PAID))
  /\ UNCHANGED <<stock, price>>

\* ----------------------------------------------------------- cancelOrder
StartCancelOrderNoTx(c, orderId, actor) ==
  /\ FreeSlot(c)
  /\ pc' = [pc EXCEPT ![c] = "ca_find"]
  /\ req' = [req EXCEPT ![c] = [NoReq EXCEPT !.op = "cancelOrder", !.userId = actor.userId,
                                             !.role = actor.role, !.orderId = orderId]]
  /\ UNCHANGED <<stock, price, orders, loc, tx, res>>

StartCancelOrder(c, orderId, actor) ==
  /\ FreeSlot(c)
  /\ pc' = [pc EXCEPT ![c] = "ca_find"]
  /\ req' = [req EXCEPT ![c] = [NoReq EXCEPT !.op = "cancelOrder", !.userId = actor.userId,
                                             !.role = actor.role, !.orderId = orderId]]
  /\ tx' = [tx EXCEPT ![c] = PendingTx]
  /\ UNCHANGED <<stock, price, orders, loc, res>>

\* orderRepo.findById(orderId) and the checks up to the restore loop; for an
\* order that is already cancelled: session.abortTransaction(); return order
CaFindIdempotentFirst(c) ==
  /\ pc[c] = "ca_find"
  /\ LET o == req[c].orderId IN
     IF o \notin 1..Len(orders)
     THEN Throw(c, "NotFound", tx[c])
     ELSE IF AlreadyCancelled(orders[o].status)
     THEN /\ Finish(c, Ok(o, CANCELLED))
          /\ tx' = [tx EXCEPT ![c] = NoTx]
     ELSE IF NotOwner(req[c].role, orders[o].userId, req[c].userId)
     THEN Throw(c, "Forbidden", tx[c])
     ELSE IF PaidLocked(req[c].role, orders[o].status)
     THEN Throw(c, "ForbiddenPaid", tx[c])
     ELSE /\ loc' = [loc EXCEPT ![c] = [NoLoc EXCEPT !.i = 1,
                                          !.orderItems = orders[o].items]]
          /\ pc' = [pc EXCEPT ![c] = IF orders[o].items = <<>> THEN "ca_update" ELSE "ca_inc"]
          /\ UNCHANGED <<req, tx, res>>
  /\ UNCHANGED <<stock, price, orders>>

CaFind(c) ==
  /\ pc[c] = "ca_find"
  /\ LET o == req[c].orderId IN
     IF o \notin 1..Len(orders)
     THEN Throw(c, "NotFound", tx[c])
     ELSE IF NotOwner(req[c].role, orders[o].userId, req[c].userId)
     THEN Throw(c, "Forbidden", tx[c])
     ELSE IF AlreadyCancelled(orders[o].status)
     THEN /\ Finish(c, Ok(o, CANCELLED))
          /\ tx' = [tx EXCEPT ![c] = NoTx]
     ELSE IF PaidLocked(req[c].role, orders[o].status)
     THEN Throw(c, "ForbiddenPaid", tx[c])
     ELSE /\ loc' = [loc EXCEPT ![c] = [NoLoc EXCEPT !.i = 1,
                                          !.orderItems = orders[o].items]]
          /\ pc' = [pc EXCEPT ![c] = IF orders[o].items = <<>> THEN "ca_update" ELSE "ca_inc"]
          /\ UNCHANGED <<req, tx, res>>
  /\ UNCHANGED <<stock, price, orders>>

\* findOneAndUpdate({_id: item.productId}, {$inc: {stock: item.quantity}}, {session})
CaInc(c) ==
  /\ pc[c] = "ca_inc"
  /\ LET it == loc[c].orderItems[loc[c].i]
         p == it.productId
         t == Touch(c)
     IN
     \/ Throw(c, "DbError", t)                 \* the driver call rejects
     \/ IF ConflictP(c, t, p)
        THEN Throw(c, "WriteConflict", t)
        ELSE /\ tx' = [tx EXCEPT ![c] = [t EXCEPT !.view[p] = Increment(@, it.quantity),
                                                  !.wp = @ \cup {p}]]
             /\ loc' = [loc EXCEPT ![c].i = @ + 1]
             /\ pc' = [pc EXCEPT ![c] =
                         IF loc[c].i < Len(loc[c].orderItems) THEN "ca_inc" ELSE "ca_update"]
             /\ UNCHANGED <<req, res>>
  /\ UNCHANGED <<stock, price, orders>>

\* orderRepo.update(orderId, { status: CANCELLED }, session)
CaUpdate(c) ==
  /\ pc[c] = "ca_update"
  /\ LET o == req[c].orderId
         t == Touch(c)
     IN
     \/ Throw(c, "DbError", t)                 \* rejects, or returns null
     \/ IF ConflictO(c, t, o)
        THEN Throw(c, "WriteConflict", t)
        ELSE /\ tx' = [tx EXCEPT ![c] = [t EXCEPT !.wo = @ \cup {o}]]
             /\ pc' = [pc EXCEPT ![c] = "ca_commit"]
             /\ UNCHANGED <<req, loc, res>>
  /\ UNCHANGED <<stock, price, orders>>

\* session.commitTransaction(); return updatedOrder
CaCommitClearsTotal(c) ==
  /\ pc[c] = "ca_commit"
  /\ LET t == tx[c]
         o == req[c].orderId
     IN
     /\ stock' = [p \in ProductIds |-> IF p \in t.wp THEN t.view[p] ELSE stock[p]]
     /\ orders' = [orders EXCEPT ![o].status = CANCELLED, ![o].total = 0]
     /\ tx' = Stale(c, t.wp, t.wo)
  /\ Finish(c, Ok(req[c].orderId, CANCELLED))
  /\ UNCHANGED price

CaCommit(c) ==
  /\ pc[c] = "ca_commit"
  /\ CommitTx(c)
  /\ Finish(c, Ok(req[c].orderId, CANCELLED))
  /\ UNCHANGED price

\* ------------------------------------------- POST /orders, the controller
\* A quantity in a request body is any JSON number: here num / den.
BodyQuantities == [num : -1..MaxQty, den : 1..2]
BodyItems == [productId : ProductIds, quantity : BodyQuantities]
Bodies == UNION {[1..n -> BodyItems] : n \in 0..MaxItems}

\* z.number().int().positive()
QuantityOkAny(q) == TRUE
QuantityOk(q) == q.num % q.den = 0 /\ q.num > 0

\* z.array(OrderItemZodSchema).min(1)
ZodOk(body) == Len(body) >= 1 /\ \A k \in 1..Len(body) : QuantityOk(body[k].quantity)

\* the items that CreateOrderZodSchema.parse returns
Parsed(body) ==
  [k \in 1..Len(body) |->
     [productId |-> body[k].productId,
      quantity |-> body[k].quantity.num \div body[k].quantity.den]]

\* the request reaches orderController.createOrder with its JSON body
ReceiveCreateOrder(c, userId, body) ==
  /\ FreeSlot(c)
  /\ LinesInUse + Len(body) <= MaxLines
  /\ pc' = [pc EXCEPT ![c] = "co_parse"]
  /\ req' = [req EXCEPT ![c] = [NoReq EXCEPT !.op = "postOrder", !.userId = userId,
                                             !.body = body]]
  /\ UNCHANGED <<stock, price, orders, loc, tx, res>>

\* CreateOrderZodSchema.parse(req.body): a ZodError goes to next(error);
\* otherwise orderService.createOrder({ userId, items }) starts its session
\* and transaction
ParseCreateOrder(c) ==
  /\ pc[c] = "co_parse"
  /\ IF ~ZodOk(req[c].body)
     THEN /\ Finish(c, Err("ValidationError"))
          /\ UNCHANGED tx
     ELSE /\ pc' = [pc EXCEPT ![c] = "co_find"]
          /\ req' = [req EXCEPT ![c] = [NoReq EXCEPT !.op = "createOrder",
                                                     !.userId = req[c].userId,
                                                     !.items = Parsed(req[c].body)]]
          /\ loc' = [loc EXCEPT ![c] = [NoLoc EXCEPT !.i = 1]]
          /\ tx' = [tx EXCEPT ![c] = PendingTx]
          /\ UNCHANGED res
  /\ UNCHANGED <<stock, price, orders>>

\* ------------------------------------------------------------- getOrders
\* role === 'admin'
IsAdminAlways(role) == TRUE
IsAdmin(role) == role = "admin"

\* this.model.find({}).exec()
FindAll(ords) == [i \in 1..Len(ords) |-> i]

\* this.model.find({ userId }).sort({ createdAt: -1 }).exec()
RECURSIVE FindByUserId(_, _)
FindByUserId(ords, userId) ==
  IF ords = <<>> THEN <<>>
  ELSE LET n == Len(ords) IN
       (IF ords[n].userId = userId THEN <<n>> ELSE <<>>)
         \o FindByUserId(SubSeq(ords, 1, n - 1), userId)

StartGetOrders(c, actor) ==
  /\ FreeSlot(c)
  /\ pc' = [pc EXCEPT ![c] = "get_find"]
  /\ req' = [req EXCEPT ![c] = [NoReq EXCEPT !.op = "getOrders", !.userId = actor.userId,
                                             !.role = actor.role]]
  /\ UNCHANGED <<stock, price, orders, loc, tx, res>>

\* orderRepo.findAll() or orderRepo.findByUserId(userId)
GetFind(c) ==
  /\ pc[c] = "get_find"
  /\ \/ Finish(c, Err("DbError"))               \* the query rejects
     \/ Finish(c, OkList(IF IsAdmin(req[c].role) THEN FindAll(orders)
                         ELSE FindByUserId(orders, req[c].userId)))
  /\ UNCHANGED <<stock, price, orders, tx>>

\* --------------------------------------------------------- product catalog
\* ProductZodSchema.partial(): the fields of a PATCH /products/:id body; a
\* field that is left out is Absent
Absent == -1
ProductUpdates == [price : (1..MaxPrice) \cup {Absent}, stock : (0..MaxStock) \cup {Absent}]
                    \ {[price |-> Absent, stock |-> Absent]}

\* productRepo.update(id, data): findByIdAndUpdate, no session
UpdateProductReprice(p, data) ==
  /\ \A d \in Calls : p \notin tx[d].wp
  /\ price' = [price EXCEPT ![p] = IF data.price = Absent THEN @ ELSE data.price]
  /\ stock' = [stock EXCEPT ![p] = IF data.stock = Absent THEN @ ELSE data.stock]
  /\ <<price', stock'>> # <<price, stock>>
  /\ tx' = StaleAll({p}, {})
  /\ orders' = [o \in 1..Len(orders) |->
                  [orders[o] EXCEPT !.items = [k \in 1..Len(@) |->
                     IF @[k].productId = p THEN [@[k] EXCEPT !.unitPrice = price'[p]]
                     ELSE @[k]]]]
  /\ UNCHANGED <<pc, req, loc, res>>

UpdateProduct(p, data) ==
  /\ \A d \in Calls : p \notin tx[d].wp        \* waits for the open transaction
  /\ price' = [price EXCEPT ![p] = IF data.price = Absent THEN @ ELSE data.price]
  /\ stock' = [stock EXCEPT ![p] = IF data.stock = Absent THEN @ ELSE data.stock]
  /\ <<price', stock'>> # <<price, stock>>
  /\ tx' = StaleAll({p}, {})
  /\ UNCHANGED <<orders, pc, req, loc, res>>

\* the order ids and actors of the requests: every order with every actor, and
\* one id that no order has
OrderRequests == ((1..Len(orders)) \X Actors)
                   \cup {<<NoOrder, [userId |-> "u1", role |-> "customer"]>>}

Next ==
  \/ \E c \in Calls, u \in UserIds, items \in ItemLists : StartCreateOrder(c, u, items)
  \/ \E c \in Calls : CoFind(c)
  \/ \E c \in Calls : CoDec(c)
  \/ \E c \in Calls : CoSave(c)
  \/ \E c \in Calls : CoCommit(c)
  \/ \E c \in Calls, r \in OrderRequests : StartPayOrder(c, r[1], r[2])
  \/ \E c \in Calls : PayFind(c)
  \/ \E c \in Calls : PayUpdate(c)
  \/ \E c \in Calls, r \in OrderRequests : StartCancelOrder(c, r[1], r[2])
  \/ \E c \in Calls : CaFind(c)
  \/ \E c \in Calls : CaInc(c)
  \/ \E c \in Calls : CaUpdate(c)
  \/ \E c \in Calls : CaCommit(c)
  \/ \E c \in Calls : Abort(c)
  \/ \E c \in Calls : Return(c)

Spec == Init /\ [][Next]_vars

\* Every await of createOrder and cancelOrder settles and the event loop runs
\* the continuation; none of their database calls waits for another
\* invocation (a conflicting session write is rejected, not queued).
Fairness ==
  \A c \in Calls :
    /\ WF_vars(CoFind(c)) /\ WF_vars(CoDec(c)) /\ WF_vars(CoSave(c))
    /\ WF_vars(CoCommit(c))
    /\ WF_vars(CaFind(c)) /\ WF_vars(CaInc(c)) /\ WF_vars(CaUpdate(c))
    /\ WF_vars(CaCommit(c))
    /\ WF_vars(Abort(c))

SpecFair == Spec /\ Fairness

\* ------------------------------------------- orders and catalog edits
\* The order operations together with the admin's edits of the catalog.
\* Here an order operation starts when no other is in flight, so that every
\* interleaving is one of an order operation with catalog edits.
NoneInFlight == \A c \in Calls : pc[c] = "idle"

NextCatalog ==
  \/ \E p \in ProductIds, data \in ProductUpdates : UpdateProduct(p, data)
  \/ /\ NoneInFlight
     /\ \E c \in Calls, u \in UserIds, items \in ItemLists : StartCreateOrder(c, u, items)
  \/ /\ NoneInFlight
     /\ \E c \in Calls, r \in OrderRequests : StartPayOrder(c, r[1], r[2])
  \/ /\ NoneInFlight
     /\ \E c \in Calls, r \in OrderRequests : StartCancelOrder(c, r[1], r[2])
  \/ \E c \in Calls : CoFind(c)
  \/ \E c \in Calls : CoDec(c)
  \/ \E c \in Calls : CoSave(c)
  \/ \E c \in Calls : CoCommit(c)
  \/ \E c \in Calls : PayFind(c)
  \/ \E c \in Calls : PayUpdate(c)
  \/ \E c \in Calls : CaFind(c)
  \/ \E c \in Calls : CaInc(c)
  \/ \E c \in Calls : CaUpdate(c)
  \/ \E c \in Calls : CaCommit(c)
  \/ \E c \in Calls : Abort(c)
  \/ \E c \in Calls : Return(c)

SpecCatalog == Init /\ [][NextCatalog]_vars

\* --------------------------------------------- validated order creation
\* Requests to POST /orders with any body, valid or not, one at a time.
NextValidated ==
  \/ /\ NoneInFlight
     /\ \E c \in Calls, u \in UserIds, body \in Bodies : ReceiveCreateOrder(c, u, body)
  \/ \E c \in Calls : ParseCreateOrder(c)
  \/ \E c \in Calls : CoFind(c)
  \/ \E c \in Calls : CoDec(c)
  \/ \E c \in Calls : CoSave(c)
  \/ \E c \in Calls : CoCommit(c)
  \/ \E c \in Calls : Abort(c)
  \/ \E c \in Calls : Return(c)

SpecValidated == Init /\ [][NextValidated]_vars

\* ------------------------------------------- orders of several customers
\* Two customers place, pay and cancel orders, one operation at a time, and
\* any actor lists the orders at any moment.
NextOrdersRead ==
  \/ \E c \in Calls, a \in Actors : StartGetOrders(c, a)
  \/ \E c \in Calls : GetFind(c)
  \/ /\ NoneInFlight
     /\ \E c \in Calls, u \in Customers, items \in ItemLists : StartCreateOrder(c, u, items)
  \/ /\ NoneInFlight
     /\ \E c \in Calls, r \in OrderRequests : StartPayOrder(c, r[1], r[2])
  \/ /\ NoneInFlight
     /\ \E c \in Calls, r \in OrderRequests : StartCancelOrder(c, r[1], r[2])
  \/ \E c \in Calls : CoFind(c)
  \/ \E c \in Calls : CoDec(c)
  \/ \E c \in Calls : CoSave(c)
  \/ \E c \in Calls : CoCommit(c)
  \/ \E c \in Calls : PayFind(c)
  \/ \E c \in Calls : PayUpdate(c)
  \/ \E c \in Calls : CaFind(c)
  \/ \E c \in Calls : CaInc(c)
  \/ \E c \in Calls : CaUpdate(c)
  \/ \E c \in Calls : CaCommit(c)
  \/ \E c \in Calls : Abort(c)
  \/ \E c \in Calls : Return(c)

SpecOrdersRead == Init /\ [][NextOrdersRead]_vars

\* ------------------------------------------------- two racing createOrder
\* Two createOrder invocations are in flight, each asking for one unit of the
\* same product, whose stock is 1.
InitRace ==
  \E p \in ProductIds :
    /\ stock \in [ProductIds -> 0..2]
    /\ stock[p] = 1
    /\ price \in [ProductIds -> 1..2]
    /\ orders = <<>>
    /\ pc = [c \in Calls |-> "co_find"]
    /\ req = [c \in Calls |-> [NoReq EXCEPT !.op = "createOrder", !.userId = "u1",
                                            !.items = <<[productId |-> p, quantity |-> 1]>>]]
    /\ loc = [c \in Calls |-> [NoLoc EXCEPT !.i = 1]]
    /\ tx = [c \in Calls |-> PendingTx]
    /\ res = [c \in Calls |-> NoRes]

NextRace ==
  \/ \E c \in Calls : CoFind(c)
  \/ \E c \in Calls : CoDec(c)
  \/ \E c \in Calls : CoSave(c)
  \/ \E c \in Calls : CoCommit(c)
  \/ \E c \in Calls : Abort(c)

SpecRace == InitRace /\ [][NextRace]_vars

\* ------------------------------------------------- two racing cancelOrder
\* One CREATED order of u1 is in the ledger, its lines taken off the initial
\* stock, and every invocation is a cancelOrder of it, by its owner or by an
\* admin, that has started its transaction.
Cancellers == {a \in Actors : a.userId = "u1" \/ a.role = "admin"}

InitCancelRace ==
  \E items \in ItemLists, actor \in [Calls -> Cancellers] :
    /\ \A k \in 1..Len(items) : items[k].productId \in ProductIds
    /\ \A p \in ProductIds : Qty(items, p) <= InitStock[p]
    /\ stock = [p \in ProductIds |-> InitStock[p] - Qty(items, p)]
    /\ price = InitPrice
    /\ LET lines == [k \in 1..Len(items) |->
                       [productId |-> items[k].productId, quantity |-> items[k].quantity,
                        unitPrice |-> InitPrice[items[k].productId]]]
       IN orders = <<[userId |-> "u1", items |-> lines, total |-> SumItems(lines),
                      status |-> CREATED]>>
    /\ pc = [c \in Calls |-> "ca_find"]
    /\ req = [c \in Calls |-> [NoReq EXCEPT !.op = "cancelOrder",
                                            !.userId = actor[c].userId,
                                            !.role = actor[c].role, !.orderId = 1]]
    /\ loc = [c \in Calls |-> NoLoc]
    /\ tx = [c \in Calls |-> PendingTx]
    /\ res = [c \in Calls |-> NoRes]

NextCancelRace ==
  \/ \E c \in Calls : CaFind(c)
  \/ \E c \in Calls : CaInc(c)
  \/ \E c \in Calls : CaUpdate(c)
  \/ \E c \in Calls : CaCommit(c)
  \/ \E c \in Calls : Abort(c)

SpecCancelRace == InitCancelRace /\ [][NextCancelRace]_vars

\* ================================================================ claims
Moved(c) == pc'[c] # pc[c]
Succeeded == {c \in Calls : pc[c] = "done" /\ res[c].ok}
Failed == {c \in Calls : pc[c] = "done" /\ ~res[c].ok}
InsufficientStockErrors == {"InsufficientStock", "InsufficientStockRace"}
Restored(o) == \A p \in ProductIds : stock'[p] = stock[p] + Qty(orders[o].items, p)

\* C1: in every reachable state the stock of every product is at least 0,
\* in the committed catalog and in the view of every open transaction.
C1_StockNeverNegative ==
  \A p \in ProductIds : stock[p] >= 0 /\ \A c \in Calls : tx[c].view[p] >= 0

\* a conditional decrement found too little stock while the stock is used up
C1_Witness ==
  \E c \in Calls, p \in ProductIds :
    /\ pc[c] = "done" /\ res[c].err = "InsufficientStockRace"
    /\ stock[p] = 0 /\ Len(orders) = 2

\* C2: of two concurrent createOrder calls for one unit of a product with
\* stock 1, exactly one succeeds, creating one order and leaving stock 0, and
\* the other fails with InsufficientStock (no database fault being injected).
C2_ExactlyOneWinsOtherInsufficient ==
  ((\A c \in Calls : pc[c] = "done") /\ (\A c \in Calls : res[c].err # "DbError"))
    => /\ Cardinality(Succeeded) = 1
       /\ Len(orders) = 1
       /\ stock[orders[1].items[1].productId] = 0
       /\ \A c \in Failed : res[c].err \in InsufficientStockErrors

\* C3: a createOrder that fails leaves no order and no stock change behind:
\* no step of a createOrder other than its successful commit changes the
\* committed stock or the ledger.
C3_FailedCreateChangesNothing ==
  [][\A c \in Calls :
       (Moved(c) /\ pc[c] \in {"co_find", "co_dec", "co_save", "co_commit", "abort"}
          /\ ~(pc[c] = "co_commit" /\ pc'[c] = "done" /\ res'[c].ok))
         => (stock' = stock /\ orders' = orders)]_vars

\* a createOrder failed on its second line after the first was decremented
C3_Witness ==
  \E c \in Calls :
    /\ pc[c] = "abort" /\ res[c].err \in {"NotFound", "InsufficientStock"}
    /\ tx[c].wp # {}
    /\ stock = InitStock /\ orders = <<>>

\* C4: the status of an order only changes CREATED -> PAID, CREATED ->
\* CANCELLED or PAID -> CANCELLED; a CANCELLED order never changes again.
C4_StatusTransitions ==
  [][\A o \in 1..Len(orders) :
       orders'[o].status # orders[o].status
         => <<orders[o].status, orders'[o].status>>
              \in {<<CREATED, PAID>>, <<CREATED, CANCELLED>>, <<PAID, CANCELLED>>}]_vars

\* C5: cancelOrder on an order that is already CANCELLED returns it with
\* status CANCELLED, writes no order and changes no stock.
C5_CancelTwiceRestoresOnce ==
  [][\A c \in Calls :
       LET o == req[c].orderId IN
       (Moved(c) /\ pc[c] = "ca_find" /\ o \in 1..Len(orders)
          /\ orders[o].status = CANCELLED
          /\ ~NotOwner(req[c].role, orders[o].userId, req[c].userId))
         => /\ pc'[c] = "done" /\ res'[c] = Ok(o, CANCELLED)
            /\ stock' = stock /\ orders' = orders
            /\ tx'[c] = NoTx]_vars

\* two cancelOrder calls returned the same order as CANCELLED and its stock
\* is back at the initial value
C5_Witness ==
  /\ \A c \in Calls : pc[c] = "done" /\ res[c] = Ok(1, CANCELLED)
  /\ Len(orders) = 1 /\ orders[1].status = CANCELLED
  /\ stock = InitStock

\* C6: payOrder on an order that is already PAID returns it with status PAID,
\* writes no order and changes no stock.
C6_PayTwiceWritesOnce ==
  [][\A c \in Calls :
       LET o == req[c].orderId IN
       (Moved(c) /\ pc[c] = "pay_find" /\ o \in 1..Len(orders)
          /\ orders[o].status = PAID
          /\ ~NotOwner(req[c].role, orders[o].userId, req[c].userId))
         => /\ pc'[c] = "done" /\ res'[c] = Ok(o, PAID)
            /\ stock' = stock /\ orders' = orders /\ tx' = tx]_vars

\* two payOrder calls returned the same order as PAID
C6_Witness ==
  /\ \A c \in Calls : pc[c] = "done" /\ res[c] = Ok(1, PAID)
  /\ Len(orders) = 1 /\ orders[1].status = PAID

\* C7: cancelOrder is all or nothing: no step of a cancelOrder other than its
\* commit changes the committed stock or the ledger; a step that raises a
\* stock leaves an order CANCELLED whose lines it restored; and a step that
\* makes an order CANCELLED restores the stock of its lines.
C7_CancelAllOrNothing ==
  [][/\ \A c \in Calls :
          (Moved(c) /\ pc[c] \in {"ca_find", "ca_inc", "ca_update", "abort"})
            => (stock' = stock /\ orders' = orders)
     /\ (\E p \in ProductIds : stock'[p] > stock[p])
          => \E o \in 1..Len(orders) : orders'[o].status = CANCELLED /\ Restored(o)
     /\ \A o \in 1..Len(orders) :
          (orders[o].status # CANCELLED /\ orders'[o].status = CANCELLED)
            => Restored(o)]_vars

\* the restore of the second line of a two-line order failed after the first
\* line was restored; the order is still CREATED and the stock still reduced
C7_Witness ==
  \E c \in Calls :
    /\ pc[c] = "abort" /\ res[c].err = "DbError" /\ tx[c].wp # {}
    /\ Len(orders) = 1 /\ Len(orders[1].items) = 2 /\ orders[1].status = CREATED
    /\ \A p \in ProductIds : stock[p] = InitStock[p] - Qty(orders[1].items, p)

\* C8: the total of every order, committed or written in an open
\* transaction, is the sum over its lines of quantity times unitPrice.
C8_TotalIsSumOfLines ==
  /\ \A o \in 1..Len(orders) : orders[o].total = SumItems(orders[o].items)
  /\ \A c \in Calls : \A k \in 1..Len(tx[c].ins) :
       tx[c].ins[k].total = SumItems(tx[c].ins[k].items)

\* an order of two lines, one of them with quantity 2
C8_Witness ==
  \E o \in 1..Len(orders) :
    /\ Len(orders[o].items) = 2
    /\ \E k \in 1..2 : orders[o].items[k].quantity = 2

\* C9: a successful createOrder appends exactly one order, CREATED, owned by
\* userId, with one line per requested item in input order and quantity,
\* takes exactly the requested quantities off the stock, and changes no
\* other order.
C9_CreateEffect ==
  [][\A c \in Calls :
       (Moved(c) /\ pc[c] = "co_commit" /\ pc'[c] = "done")
         => LET n == Len(orders) + 1 IN
            /\ res'[c] = Ok(n, CREATED)
            /\ Len(orders') = n
            /\ \A o \in 1..Len(orders) : orders'[o] = orders[o]
            /\ orders'[n].status = CREATED
            /\ orders'[n].userId = req[c].userId
            /\ Len(orders'[n].items) = Len(req[c].items)
            /\ \A k \in 1..Len(req[c].items) :
                 /\ orders'[n].items[k].productId = req[c].items[k].productId
                 /\ orders'[n].items[k].quantity = req[c].items[k].quantity
            /\ \A p \in ProductIds : stock'[p] = stock[p] - Qty(req[c].items, p)]_vars

\* a createOrder returned its order while another order was in the ledger
C9_Witness ==
  \E c \in Calls :
    /\ pc[c] = "done" /\ res[c] = Ok(2, CREATED)
    /\ Len(orders) = 2 /\ orders[2].items[1].quantity = 2

\* C10: a successful cancelOrder of a CREATED order makes it CANCELLED and
\* adds each line's quantity to the stock of its product, whatever the stock
\* is; no other product and no other order changes.
C10_CancelEffect ==
  [][\A c \in Calls :
       LET o == req[c].orderId IN
       (Moved(c) /\ pc[c] = "ca_commit" /\ pc'[c] = "done" /\ orders[o].status = CREATED)
         => /\ res'[c] = Ok(o, CANCELLED)
            /\ orders' = [orders EXCEPT ![o].status = CANCELLED]
            /\ Restored(o)]_vars

\* a two-line order with a line of quantity 2 was cancelled and the stock is
\* back at the initial value
C10_Witness ==
  \E c \in Calls :
    /\ pc[c] = "done" /\ res[c] = Ok(1, CANCELLED)
    /\ Len(orders) = 1 /\ orders[1].status = CANCELLED
    /\ Len(orders[1].items) = 2 /\ orders[1].items[1].quantity = 2
    /\ stock = InitStock

\* C11: no step changes the items or the total of an order that is in the
\* ledger, and no order leaves the ledger; in particular a step that changes
\* the price of a product changes no order at all.
C11_PriceChangeLeavesOrders ==
  [][/\ Len(orders') >= Len(orders)
     /\ \A o \in 1..Len(orders) :
          orders'[o].items = orders[o].items /\ orders'[o].total = orders[o].total
     /\ price' # price => orders' = orders]_vars

\* the price of a product was changed after an order for it was created: the
\* order has kept the unit price and the total it was created with
C11_Witness ==
  \E o \in 1..Len(orders) :
    /\ orders[o].items[1].productId = "p1" /\ orders[o].items[1].unitPrice = InitPrice["p1"]
    /\ price["p1"] # InitPrice["p1"]
    /\ orders[o].total = SumItems(orders[o].items)

\* C12: every line of an order that createOrder commits carries as unitPrice
\* the price its product had at the step of the line's conditional decrement.
C12_UnitPriceIsPriceAtDecrement ==
  [][\A c \in Calls :
       (Moved(c) /\ pc[c] = "co_commit" /\ pc'[c] = "done")
         => \A k \in 1..Len(loc[c].orderItems) :
              orders'[Len(orders')].items[k].unitPrice = loc[c].reserved[k]]_vars

\* C13: a cancelOrder that reads its order as PAID fails with a Forbidden
\* error when the actor is no admin, with the paid-order error when the actor
\* owns the order, and changes no order and no stock; for an admin it goes on
\* to the restore, and its commit makes the order CANCELLED and restores the
\* stock of every line.
C13_CancelPaidOnlyByAdmin ==
  [][\A c \in Calls :
       LET o == req[c].orderId IN
       /\ (Moved(c) /\ pc[c] = "ca_find" /\ o \in 1..Len(orders)
             /\ orders[o].status = PAID /\ req[c].role # "admin")
            => /\ pc'[c] = "done" /\ ~res'[c].ok
               /\ res'[c].err \in {"Forbidden", "ForbiddenPaid"}
               /\ orders[o].userId = req[c].userId => res'[c].err = "ForbiddenPaid"
               /\ stock' = stock /\ orders' = orders /\ tx'[c] = NoTx
       /\ (Moved(c) /\ pc[c] = "ca_find" /\ o \in 1..Len(orders)
             /\ orders[o].status = PAID /\ req[c].role = "admin")
            => pc'[c] \in {"ca_inc", "ca_update"} /\ loc'[c].orderItems = orders[o].items
       /\ (Moved(c) /\ pc[c] = "ca_commit" /\ pc'[c] = "done"
             /\ orders[o].status = PAID /\ req[c].role = "admin")
            => /\ res'[c] = Ok(o, CANCELLED)
               /\ orders' = [orders EXCEPT ![o].status = CANCELLED]
               /\ Restored(o)]_vars

\* the owner's cancelOrder of a PAID order was refused, the order is still
\* PAID and its stock still reduced, and an admin's cancelOrder of the same
\* order is about to commit
C13_Witness ==
  \E c, d \in Calls :
    /\ pc[c] = "done" /\ res[c].err = "ForbiddenPaid"
    /\ Len(orders) = 1 /\ orders[1].status = PAID
    /\ \A p \in ProductIds : stock[p] = InitStock[p] - Qty(orders[1].items, p)
    /\ pc[d] = "ca_commit" /\ req[d].role = "admin" /\ req[d].orderId = 1

\* C14: payOrder and cancelOrder by an actor who is no admin and does not own
\* the order fail with the ownership error and change no order and no stock;
\* an admin is never refused for ownership, goes on with a CREATED order of
\* another user, and the admin's write makes it PAID or CANCELLED.
C14_OnlyOwnerOrAdmin ==
  [][\A c \in Calls :
       LET o == req[c].orderId IN
       /\ (Moved(c) /\ pc[c] \in {"pay_find", "ca_find"} /\ o \in 1..Len(orders)
             /\ req[c].role # "admin" /\ orders[o].userId # req[c].userId)
            => /\ pc'[c] = "done" /\ res'[c] = Err("Forbidden")
               /\ stock' = stock /\ orders' = orders /\ tx'[c] = NoTx
       /\ (Moved(c) /\ pc[c] \in {"pay_find", "ca_find"} /\ o \in 1..Len(orders)
             /\ req[c].role = "admin" /\ orders[o].userId # req[c].userId)
            => /\ res'[c].err # "Forbidden"
               /\ orders[o].status = CREATED
                    => pc'[c] \in {"pay_update", "ca_inc", "ca_update"}
       /\ (Moved(c) /\ pc[c] = "pay_update" /\ res'[c].ok /\ req[c].role = "admin")
            => orders'[o].status = PAID
       /\ (Moved(c) /\ pc[c] = "ca_commit" /\ res'[c].ok /\ req[c].role = "admin")
            => orders'[o].status = CANCELLED]_vars

\* another customer's payOrder was refused and the order is still CREATED,
\* while an admin who does not own the order is about to write PAID
C14_Witness ==
  \E c, d \in Calls :
    /\ pc[c] = "done" /\ res[c] = Err("Forbidden")
    /\ Len(orders) = 1 /\ orders[1].status = CREATED
    /\ pc[d] = "pay_update" /\ req[d].role = "admin" /\ req[d].orderId = 1
    /\ orders[1].userId # req[d].userId

\* C15: getOrders returns, each once, every order of the ledger to an admin
\* and to any other actor exactly the orders whose userId is the actor's id;
\* it changes no product, no order and no transaction.
C15_GetOrdersByRole ==
  [][\A c \in Calls :
       (Moved(c) /\ pc[c] = "get_find")
         => /\ pc'[c] = "done"
            /\ res'[c].ok =>
                 LET ids == {res'[c].list[k] : k \in 1..Len(res'[c].list)} IN
                 /\ Cardinality(ids) = Len(res'[c].list)
                 /\ req[c].role = "admin" => ids = 1..Len(orders)
                 /\ req[c].role # "admin"
                      => ids = {o \in 1..Len(orders) : orders[o].userId = req[c].userId}
            /\ stock' = stock /\ price' = price /\ orders' = orders /\ tx' = tx]_vars

\* the ledger holds an order of u1 and an order of u2; one getOrders returned
\* a single order and another returned both
C15_Witness ==
  \E c, d \in Calls :
    /\ Len(orders) = 2 /\ orders[1].userId # orders[2].userId
    /\ pc[c] = "done" /\ res[c].ok /\ Len(res[c].list) = 1
    /\ pc[d] = "done" /\ res[d].ok /\ Len(res[d].list) = 2

\* C16: a payOrder that reads its order as CANCELLED, the actor being the
\* owner or an admin, fails with the order-is-cancelled error and writes
\* nothing: the order stays CANCELLED and no stock changes.
C16_PayCancelledFails ==
  [][\A c \in Calls :
       LET o == req[c].orderId IN
       (Moved(c) /\ pc[c] = "pay_find" /\ o \in 1..Len(orders)
          /\ orders[o].status = CANCELLED
          /\ ~NotOwner(req[c].role, orders[o].userId, req[c].userId))
         => /\ pc'[c] = "done" /\ res'[c] = Err("OrderCancelled")
            /\ orders' = orders /\ orders'[o].status = CANCELLED
            /\ stock' = stock /\ tx' = tx]_vars

\* a payOrder was refused for a cancelled order; the order is CANCELLED and
\* its stock restored
C16_Witness ==
  \E c \in Calls :
    /\ pc[c] = "done" /\ res[c] = Err("OrderCancelled")
    /\ Len(orders) = 1 /\ orders[1].status = CANCELLED
    /\ stock = InitStock

\* C17: a payOrder by the owner or an admin that reads its order as CREATED
\* goes on to the update without changing anything, and its update writes
\* status PAID to that order and nothing else: the order's userId, items and
\* total, every other order, and the stock and price of every product are
\* unchanged; an update that fails changes nothing.
C17_PayEffect ==
  [][\A c \in Calls :
       LET o == req[c].orderId IN
       /\ (Moved(c) /\ pc[c] = "pay_find" /\ o \in 1..Len(orders)
             /\ orders[o].status = CREATED
             /\ ~NotOwner(req[c].role, orders[o].userId, req[c].userId))
            => /\ pc'[c] = "pay_update"
               /\ orders' = orders /\ stock' = stock /\ price' = price
       /\ (Moved(c) /\ pc[c] = "pay_update")
            => /\ pc'[c] = "done"
               /\ stock' = stock /\ price' = price
               /\ res'[c].ok => /\ res'[c] = Ok(o, PAID)
                                /\ orders' = [orders EXCEPT ![o].status = PAID]
               /\ ~res'[c].ok => orders' = orders]_vars

\* the first of two orders was paid: it is PAID with the total of its lines,
\* the second order is still CREATED and the stock is that left by the two
\* creations
C17_Witness ==
  \E c \in Calls :
    /\ pc[c] = "done" /\ res[c] = Ok(1, PAID)
    /\ Len(orders) = 2 /\ orders[1].status = PAID /\ orders[2].status = CREATED
    /\ orders[1].total = SumItems(orders[1].items)
    /\ \A p \in ProductIds :
         stock[p] = InitStock[p] - Qty(orders[1].items, p) - Qty(orders[2].items, p)

\* C18: every createOrder, payOrder and cancelOrder invocation in flight has
\* a transaction of its own, started and not yet ended.
C18_OneTransactionPerInvocation ==
  \A c \in Calls :
    req[c].op \in {"createOrder", "payOrder", "cancelOrder"} => tx[c].state # "none"

\* C18, amended: every createOrder and cancelOrder invocation in flight has a
\* transaction of its own, started when the invocation starts and ended only
\* as the invocation ends, so it has exactly one; a payOrder invocation has
\* none; and no document is written by two open transactions.
C18_TransactionPerCreateAndCancel ==
  /\ [](\A c \in Calls :
          /\ (req[c].op \in {"createOrder", "cancelOrder"} \/ pc[c] = "abort")
               => tx[c].state # "none"
          /\ req[c].op = "payOrder" => tx[c].state = "none"
          /\ \A d \in Calls \ {c} :
               tx[c].wp \cap tx[d].wp = {} /\ tx[c].wo \cap tx[d].wo = {})
  /\ [][\A c \in Calls :
          /\ (tx[c].state = "none" /\ tx'[c].state # "none")
               => pc[c] = "idle" /\ tx'[c] = PendingTx
          /\ (tx[c].state # "none" /\ tx'[c].state = "none") => pc'[c] = "done"]_vars

\* a createOrder in flight whose transaction has decremented a stock, and a
\* payOrder in flight, about to write, that has no transaction
C18_Witness ==
  \E c, d \in Calls :
    /\ req[c].op = "createOrder" /\ tx[c].state = "active" /\ tx[c].wp # {}
    /\ req[d].op = "payOrder" /\ pc[d] = "pay_update" /\ tx[d].state = "none"

\* the awaits of createOrder and cancelOrder, and the catch block
InTransaction == {"co_find", "co_dec", "co_save", "co_commit",
                  "ca_find", "ca_inc", "ca_update", "ca_commit", "abort"}

C20_InvalidInputRejected ==
  /\ [][\A c \in Calls :
          LET body == req[c].body IN
          /\ (Moved(c) /\ pc[c] = "co_parse"
                /\ (body = <<>> \/ \E k \in 1..Len(body) :
                       \/ body[k].quantity.num <= 0
                       \/ body[k].quantity.num % body[k].quantity.den # 0))
               => /\ pc'[c] = "done" /\ res'[c] = Err("ValidationError")
                  /\ stock' = stock /\ orders' = orders /\ tx' = tx /\ loc' = loc
          /\ (Moved(c) /\ pc[c] = "co_parse" /\ pc'[c] # "done")
               => /\ pc'[c] = "co_find" /\ Len(req'[c].items) = Len(body)
                  /\ \A k \in 1..Len(body) :
                       /\ req'[c].items[k].productId = body[k].productId
                       /\ req'[c].items[k].quantity * body[k].quantity.den
                            = body[k].quantity.num]_vars
  /\ [](\A c \in Calls : req[c].op = "createOrder"
          => /\ req[c].items # <<>>
             /\ \A k \in 1..Len(req[c].items) : req[c].items[k].quantity >= 1)
  /\ [](\A o \in 1..Len(orders) :
          /\ orders[o].items # <<>>
          /\ \A k \in 1..Len(orders[o].items) : orders[o].items[k].quantity >= 1)

\* a request was refused at validation; no transaction is open, nothing was
\* reserved and no order exists
C20_Witness ==
  \E c \in Calls :
    /\ pc[c] = "done" /\ res[c] = Err("ValidationError")
    /\ stock = InitStock /\ orders = <<>>
    /\ \A d \in Calls : tx[d] = NoTx

\* C21: a createOrder whose pre-check finds the stock of the item's product
\* below the requested quantity fails at that step with InsufficientStock:
\* the decrement of the item is not attempted, so the transaction writes
\* nothing more, and no stock and no order changes.
C21_PreCheckFailsFast ==
  [][\A c \in Calls :
       (Moved(c) /\ pc[c] = "co_find"
          /\ req[c].items[loc[c].i].productId \in ProductIds
          /\ stock[req[c].items[loc[c].i].productId] < req[c].items[loc[c].i].quantity)
         => /\ pc'[c] \in {"abort", "done"} /\ res'[c] = Err("InsufficientStock")
            /\ tx'[c].wp = tx[c].wp /\ tx'[c].ins = <<>>
            /\ stock' = stock /\ orders' = orders]_vars

\* the only invocation so far asked for more than the stock of a product:
\* it failed with InsufficientStock, the stock is what it was and no order
\* exists
C21_Witness ==
  \E c \in Calls :
    /\ pc[c] = "done" /\ res[c] = Err("InsufficientStock")
    /\ \A d \in Calls \ {c} : pc[d] = "idle"
    /\ stock = InitStock /\ orders = <<>>

\* C22: payOrder and cancelOrder on an id that no order has fail with
\* NotFound and change no order and no stock; the transaction that
\* cancelOrder started is aborted and none stays open.
C22_MissingOrderNotFound ==
  [][\A c \in Calls :
       (Moved(c) /\ pc[c] \in {"pay_find", "ca_find"}
          /\ req[c].orderId \notin 1..Len(orders))
         => /\ pc'[c] = "done" /\ res'[c] = Err("NotFound")
            /\ stock' = stock /\ orders' = orders
            /\ pc[c] = "ca_find" => tx[c] = PendingTx
            /\ tx'[c] = NoTx]_vars

\* with an order in the ledger, a request for an id that no order has ended
\* with NotFound, and a cancelOrder for such an id has started its transaction
C22_Witness ==
  \E c, d \in Calls :
    /\ pc[c] = "done" /\ res[c] = Err("NotFound")
    /\ pc[d] = "ca_find" /\ req[d].orderId = NoOrder /\ tx[d] = PendingTx
    /\ Len(orders) = 1 /\ orders[1].status = CREATED
    /\ \A p \in ProductIds : stock[p] = InitStock[p] - Qty(orders[1].items, p)

\* C23: no step removes an order from the ledger or changes the userId, the
\* items or the total of an order that is in it: payOrder and cancelOrder
\* change the status only.
C23_OrderImmutableButStatus ==
  [][/\ Len(orders') >= Len(orders)
     /\ \A o \in 1..Len(orders) :
          orders'[o] = [orders[o] EXCEPT !.status = orders'[o].status]]_vars

\* a two-line order was paid and then cancelled and still has its lines and
\* its total
C23_Witness ==
  \E c, d \in Calls :
    /\ pc[c] = "done" /\ res[c] = Ok(1, PAID)
    /\ pc[d] = "done" /\ res[d] = Ok(1, CANCELLED)
    /\ Len(orders) = 1 /\ orders[1].status = CANCELLED /\ orders[1].userId = "u1"
    /\ Len(orders[1].items) = 2 /\ orders[1].total = SumItems(orders[1].items)

\* C24: a createOrder handles its items one after the other in input order:
\* item i is read and pre-checked, then decremented, and only then item i+1
\* is read, so the lines recorded and the products decremented are those of
\* the items before the current one; the order is written after the last
\* item; and the first item that fails, at its read, its pre-check or its
\* decrement, ends the call: no later item is read or decremented and no
\* order is written.
C24_ItemsInOrderStopAtFirstFailure ==
  /\ [](\A c \in Calls : req[c].op = "createOrder" =>
          LET i == loc[c].i
              n == Len(req[c].items)
              done == Len(loc[c].reserved)
          IN
          /\ pc[c] = "co_find" => i <= n /\ Len(loc[c].orderItems) = i - 1 /\ done = i - 1
          /\ pc[c] = "co_dec" => i <= n /\ Len(loc[c].orderItems) = i /\ done = i - 1
          /\ pc[c] \in {"co_save", "co_commit"}
               => i = n + 1 /\ Len(loc[c].orderItems) = n /\ done = n
          /\ \A k \in 1..Len(loc[c].orderItems) :
               /\ loc[c].orderItems[k].productId = req[c].items[k].productId
               /\ loc[c].orderItems[k].quantity = req[c].items[k].quantity
          /\ tx[c].wp = {req[c].items[k].productId : k \in 1..done}
          /\ tx[c].ins # <<>> => pc[c] = "co_commit")
  /\ [][\A c \in Calls :
          /\ (Moved(c) /\ pc[c] = "co_find" /\ res'[c].err = "")
               => pc'[c] = "co_dec" /\ loc'[c].i = loc[c].i
          /\ (Moved(c) /\ pc[c] = "co_dec" /\ res'[c].err = "")
               => /\ loc'[c].i = loc[c].i + 1
                  /\ pc'[c] = IF loc[c].i < Len(req[c].items) THEN "co_find" ELSE "co_save"
          /\ (Moved(c) /\ pc[c] = "co_dec"
                /\ ~StockFilter(Touch(c).view[req[c].items[loc[c].i].productId],
                                req[c].items[loc[c].i].quantity))
               => res'[c].err # ""
          /\ (Moved(c) /\ pc[c] \in {"co_find", "co_dec", "co_save"} /\ res'[c].err # "")
               => /\ pc'[c] \in {"abort", "done"}
                  /\ tx'[c].wp \subseteq tx[c].wp /\ tx'[c].ins = <<>>
          /\ (Moved(c) /\ pc[c] = "abort") => pc'[c] = "done"]_vars

\* the first item of a request is read and decremented, the second is about
\* to be read, while another createOrder has failed and no order exists
C24_Witness ==
  \E c, d \in Calls :
    /\ pc[c] = "co_find" /\ loc[c].i = 2 /\ Len(loc[c].reserved) = 1
    /\ tx[c].wp = {req[c].items[1].productId}
    /\ pc[d] = "done" /\ res[d].err \in {"NotFound", "InsufficientStock"}
    /\ orders = <<>>

\* the quantity of product p in the lines of the orders that are CREATED or PAID
RECURSIVE Held(_, _)
Held(ords, p) ==
  IF ords = <<>> THEN 0
  ELSE (IF ords[1].status \in {CREATED, PAID} THEN Qty(ords[1].items, p) ELSE 0)
         + Held(Tail(ords), p)

\* C25: a conditional decrement is rejected with the race error only for a
\* product whose stock another invocation has reduced since the pre-check,
\* so never for a product whose only reduction since then is this
\* invocation's own earlier decrement.
C25_RejectedOnlyAfterConcurrentReduction ==
  [][\A c \in Calls :
       (Moved(c) /\ pc[c] = "co_dec" /\ res'[c].err = "InsufficientStockRace")
         => req[c].items[loc[c].i].productId \notin tx[c].wp]_vars

\* C26: for every product, the committed stock plus the quantities of its
\* lines in the orders with status CREATED or PAID is the initial stock.
C26_StockConservation ==
  \A p \in ProductIds : stock[p] + Held(orders, p) = InitStock[p]

\* C27: when the concurrent cancelOrder invocations of one CREATED order have
\* all ended, no database fault having been injected, the order is CANCELLED
\* and the stock of every product has been raised by the quantities of the
\* order's lines once, which brings it back to the initial stock.
C27_ConcurrentCancelRestoresOnce ==
  ((\A c \in Calls : pc[c] = "done") /\ (\A c \in Calls : res[c].err # "DbError"))
    => /\ orders[1].status = CANCELLED
       /\ \A p \in ProductIds : stock[p] = InitStock[p]

\* C28: the status of an order goes from PAID to CANCELLED only in the
\* commit of a cancelOrder whose actor is an admin.
C28_PaidToCancelledOnlyByAdmin ==
  [][\A o \in 1..Len(orders) :
       (orders[o].status = PAID /\ orders'[o].status = CANCELLED)
         => \E c \in Calls :
              /\ pc[c] = "ca_commit" /\ Moved(c)
              /\ req[c].orderId = o /\ req[c].role = "admin"]_vars

\* a createOrder in progress whose request lists one product in two lines
SameProductTwice(c) ==
  /\ req[c].op = "createOrder"
  /\ Len(req[c].items) = 2
  /\ req[c].items[1].productId = req[c].items[2].productId

\* C29: requests being served one at a time, a createOrder that lists the
\* same product in two lines commits only when the stock before the call is
\* at least the sum of the two quantities, and then the stock drops by that
\* sum and one order is added; it fails, a database fault apart, only when
\* the stock is below the sum; when it fails, and when its transaction is
\* then aborted, the stock and the orders are unchanged.
C29_SameProductTwiceNeedsSum ==
  [][\A c \in Calls :
       /\ (SameProductTwice(c) /\ Moved(c)) =>
            LET p == req[c].items[1].productId
                sum == req[c].items[1].quantity + req[c].items[2].quantity
            IN
            /\ (pc'[c] = "done" /\ res'[c].ok) =>
                 /\ pc[c] = "co_commit"
                 /\ stock[p] >= sum
                 /\ stock' = [stock EXCEPT ![p] = @ - sum]
                 /\ Len(orders') = Len(orders) + 1
                 /\ orders'[res'[c].orderId].items = loc[c].orderItems
            /\ res'[c].err # "" =>
                 /\ stock' = stock /\ orders' = orders
                 /\ tx'[c].ins = <<>>
                 /\ res'[c].err # "DbError" => stock[p] < sum
            /\ (stock[p] >= sum /\ pc'[c] = "done") =>
                 (res'[c].ok \/ res'[c].err = "DbError")
       /\ (pc[c] = "abort" /\ Moved(c)) => (stock' = stock /\ orders' = orders)]_vars

\* such a request has been committed: the new order has two lines of one
\* product and the stock is lower by the sum of their quantities
C29_Witness ==
  \E c \in Calls :
    /\ pc[c] = "done" /\ res[c].ok
    /\ LET its == orders[res[c].orderId].items IN
         /\ Len(its) = 2
         /\ its[1].productId = its[2].productId
         /\ stock[its[1].productId]
              = InitStock[its[1].productId] - (its[1].quantity + its[2].quantity)

\* invocation c is about to read an existing order that its actor, who is
\* not an admin, does not own
ReadsForeignOrder(c) ==
  /\ req[c].orderId \in 1..Len(orders)
  /\ req[c].role # "admin"
  /\ orders[req[c].orderId].userId # req[c].userId

\* C30: a payOrder on a PAID order and a cancelOrder on a CANCELLED order,
\* by an actor who is not an admin and does not own the order, end in that
\* step with the ownership failure; the caller receives no order, and the
\* orders and the stock are unchanged.
C30_OwnershipBeforeIdempotence ==
  [][\A c \in Calls :
       (/\ Moved(c)
        /\ ReadsForeignOrder(c)
        /\ \/ pc[c] = "pay_find" /\ orders[req[c].orderId].status = PAID
           \/ pc[c] = "ca_find" /\ orders[req[c].orderId].status = CANCELLED)
         => /\ pc'[c] = "done"
            /\ res'[c] = Err("Forbidden")
            /\ ~res'[c].ok /\ res'[c].orderId = NoOrder
            /\ tx'[c] = NoTx
            /\ orders' = orders /\ stock' = stock]_vars

\* one invocation has ended with the ownership failure while order 1 is
\* PAID, and a cancelOrder by a customer who is not the owner is about to
\* read order 2, which is CANCELLED
C30_Witness ==
  \E c, d \in Calls :
    /\ Len(orders) = 2
    /\ orders[1].status = PAID /\ orders[2].status = CANCELLED
    /\ pc[c] = "done" /\ res[c] = Err("Forbidden")
    /\ pc[d] = "ca_find" /\ req[d].orderId = 2 /\ ReadsForeignOrder(d)
====
